---- MODULE Spec2Model ----
(***************************************************************************)
(* Renderer::InitDevice and Renderer::CleanupDevice of                     *)
(* Renderer/src/Renderer.cpp as a sequential state machine.  One action    *)
(* per platform call (or per control-flow test between two calls) of the   *)
(* two methods.  The platform (Direct3D 11 / DXGI / COM) is the            *)
(* environment: the HRESULT of every fallible call is chosen freely, a     *)
(* successful call stores one counted reference in its out-parameter, a    *)
(* failed call stores NULL, and Release drops one reference.               *)
(***************************************************************************)
EXTENDS Integers, Sequences, FiniteSets, TLC

VARIABLES
    self,          \* the Renderer object's member fields (m_...)
    loc,           \* the locals of InitDevice
    pc,            \* position of the single thread
    result,        \* the HRESULT InitDevice returned, "none" before it returns
    refs,          \* per COM object: the number of references the program holds
    destroyed,     \* COM objects whose last reference was dropped
    pipeline,      \* state bound on the immediate context (targets, viewport)
    calls,         \* the platform calls made so far, in order
    acquired,      \* per handle: number of references stored in it
    released,      \* per handle: number of Release calls made through it
    faults,        \* calls made through a null or dangling handle
    cleanupCalls   \* number of CleanupDevice calls started

vars == <<self, loc, pc, result, refs, destroyed, pipeline, calls, acquired,
          released, faults, cleanupCalls>>

NULL == "nullptr"

\* How many times the caller invokes CleanupDevice after InitDevice returned.
MaxCleanupCalls == 2

\* Client-area sizes GetClientRect may report for m_hWnd (InitWindow asks for
\* a 1280 x 720 client area).
ClientSizes == {<<1280, 720>>, <<640, 480>>}

----------------------------------------------------------------------------
\* HRESULT codes and the SUCCEEDED / FAILED tests

HRESULTS == {"S_OK", "E_INVALIDARG", "E_FAIL"}

SUCCEEDED(hr) == hr = "S_OK"

FAILED(hr) == ~SUCCEEDED(hr)

----------------------------------------------------------------------------
\* The tables InitDevice iterates over

\* Faulty variant: WARP is tried before the hardware driver.
driverTypes_swapped == <<"WARP", "HARDWARE", "REFERENCE">>

driverTypes == <<"HARDWARE", "WARP", "REFERENCE">>

numDriverTypes == Len(driverTypes)

featureLevels == <<"11_1", "11_0", "10_1", "10_0">>

numFeatureLevels == Len(featureLevels)

\* &featureLevels[1], numFeatureLevels - 1
featureLevelsWithoutTop == SubSeq(featureLevels, 2, numFeatureLevels)

----------------------------------------------------------------------------
\* COM objects and the handles that can refer to them

Objects == {"Device", "Context", "SwapChain", "RenderTargetView",
            "Adapter", "Factory", "BackBuffer"}

MemberHandles == {"m_pDevice", "m_pDevice1", "m_pImmediateContext",
                  "m_pImmediateContext1", "m_pSwapChain", "m_pSwapChain1",
                  "m_pRenderTargetView"}

TransientHandles == {"dxgiDevice", "adapter", "dxgiFactory", "dxgiFactory2",
                     "pBackBuffer"}

Handles == MemberHandles \cup TransientHandles

\* The value currently stored in a handle.
Value(h) == IF h \in MemberHandles THEN self[h] ELSE loc[h]

Call(fn, via, arg, hr) == [fn |-> fn, via |-> via, arg |-> arg, hr |-> hr]

\* A handle that must not be called through: null, or the program holds no
\* reference to its object any more.
Dangling(p) == IF p = NULL THEN TRUE ELSE refs[p] = 0

\* An object is destroyed when the program's last reference is dropped and
\* the pipeline no longer binds it.
Gone(r, bound) == {o \in Objects : o \in destroyed
                      \/ (refs[o] > 0 /\ r[o] = 0 /\ o \notin bound)}

Bound(p) == IF p.renderTarget = NULL THEN {} ELSE {p.renderTarget}

----------------------------------------------------------------------------
Init ==
    /\ self = [m_hWnd |-> "hWnd", m_driverType |-> "NULL", m_featureLevel |-> "none",
               m_pDevice |-> NULL, m_pDevice1 |-> NULL,
               m_pImmediateContext |-> NULL, m_pImmediateContext1 |-> NULL,
               m_pSwapChain |-> NULL, m_pSwapChain1 |-> NULL,
               m_pRenderTargetView |-> NULL]
    /\ loc = [hr |-> "S_OK", width |-> 0, height |-> 0, driverTypeIndex |-> 0,
              dxgiFactory |-> NULL, dxgiDevice |-> NULL, adapter |-> NULL,
              dxgiFactory2 |-> NULL, pBackBuffer |-> NULL]
    /\ pc = "start"
    /\ result = "none"
    /\ refs = [o \in Objects |-> 0]
    /\ destroyed = {}
    /\ pipeline = [renderTarget |-> NULL, viewport |-> <<>>]
    /\ calls = <<>>
    /\ acquired = [h \in Handles |-> 0]
    /\ released = [h \in Handles |-> 0]
    /\ faults = {}
    /\ cleanupCalls = 0


----------------------------------------------------------------------------
\* Effects of platform calls on the program's reference bookkeeping

Range(s) == {s[i] : i \in 1..Len(s)}

\* A successful call stored a reference to object o in handle h.
Stored(r, o) == [r EXCEPT ![o] = @ + 1]

Counted(a, h) == [a EXCEPT ![h] = @ + 1]

\* Control passes to `next` and nothing else changes.
Skip(next) ==
    /\ pc' = next
    /\ UNCHANGED <<self, loc, result, refs, destroyed, pipeline, calls,
                   acquired, released, faults, cleanupCalls>>

\* return hr;
Return(hr) ==
    /\ result' = hr
    /\ pc' = "returned"

\* A call through a null or dangling handle is undefined behaviour: the
\* process may fault on the spot or carry on with memory it no longer owns.
UndefinedCall(fn, h, next) ==
    /\ faults' = faults \cup {h}
    /\ calls' = Append(calls, Call(fn, h, <<>>, "undefined"))
    /\ released' = IF fn = "Release" THEN Counted(released, h) ELSE released
    /\ pc' \in {"crashed", next}
    /\ UNCHANGED <<self, loc, result, refs, destroyed, pipeline, acquired,
                   cleanupCalls>>

\* h->Release() on a live object.
ReleaseLive(h, next) ==
    /\ refs' = [refs EXCEPT ![Value(h)] = @ - 1]
    /\ destroyed' = Gone(refs', Bound(pipeline))
    /\ released' = Counted(released, h)
    /\ calls' = Append(calls, Call("Release", h, <<>>, "S_OK"))
    /\ pc' = next
    /\ UNCHANGED <<self, loc, result, pipeline, acquired, faults, cleanupCalls>>

\* h->Release()
Release(h, next) ==
    IF Dangling(Value(h)) THEN UndefinedCall("Release", h, next)
    ELSE ReleaseLive(h, next)

----------------------------------------------------------------------------
\* Renderer::InitDevice, lines 67-120: device creation with fallback

InitDevice_Enter ==
    /\ pc = "start"
    /\ \E sz \in ClientSizes :
         loc' = [loc EXCEPT !.hr = "S_OK", !.width = sz[1], !.height = sz[2],
                            !.driverTypeIndex = 0]
    /\ pc' = "for_test"
    /\ UNCHANGED <<self, result, refs, destroyed, pipeline, calls, acquired,
                   released, faults, cleanupCalls>>

\* driverTypeIndex < numDriverTypes
LoopCondition == loc.driverTypeIndex < numDriverTypes

ForTest ==
    /\ pc = "for_test"
    /\ pc' = IF LoopCondition THEN "create_device" ELSE "check_device"
    /\ UNCHANGED <<self, loc, result, refs, destroyed, pipeline, calls,
                   acquired, released, faults, cleanupCalls>>

\* hr = D3D11CreateDevice(nullptr, drv, ..., levels, ..., &m_pDevice,
\*                        &m_featureLevel, &m_pImmediateContext)
\* with `base` the member record the call starts from.
D3D11CreateDevice(base, drv, levels, next) ==
    \E hr \in HRESULTS, fl \in Range(levels) :
        /\ loc' = [loc EXCEPT !.hr = hr]
        /\ calls' = Append(calls, Call("D3D11CreateDevice", "", <<drv, levels>>, hr))
        /\ IF SUCCEEDED(hr)
           THEN /\ self' = [base EXCEPT !.m_pDevice = "Device",
                                        !.m_pImmediateContext = "Context",
                                        !.m_featureLevel = fl]
                /\ refs' = Stored(Stored(refs, "Device"), "Context")
                /\ acquired' = Counted(Counted(acquired, "m_pDevice"),
                                       "m_pImmediateContext")
           ELSE /\ self' = base
                /\ UNCHANGED <<refs, acquired>>
        /\ pc' = next
        /\ UNCHANGED <<result, destroyed, pipeline, released, faults,
                       cleanupCalls>>

CreateDevice ==
    /\ pc = "create_device"
    /\ D3D11CreateDevice(
           [self EXCEPT !.m_driverType = driverTypes[loc.driverTypeIndex + 1]],
           driverTypes[loc.driverTypeIndex + 1], featureLevels, "retry_test")

\* Faulty variant: every failed first attempt is retried.
RetryCondition_anyFailure(hr) == FAILED(hr)

\* hr == E_INVALIDARG
RetryCondition(hr) == hr = "E_INVALIDARG"

RetryWithoutTopLevel ==
    /\ pc = "retry_test"
    /\ IF RetryCondition(loc.hr)
       THEN D3D11CreateDevice(self, self.m_driverType, featureLevelsWithoutTop,
                              "break_test")
       ELSE /\ pc' = "break_test"
            /\ UNCHANGED <<self, loc, result, refs, destroyed, pipeline, calls,
                           acquired, released, faults, cleanupCalls>>

\* if (SUCCEEDED(hr)) break;
BreakCondition(hr) == SUCCEEDED(hr)

BreakTest ==
    /\ pc = "break_test"
    /\ IF BreakCondition(loc.hr)
       THEN /\ pc' = "check_device"
            /\ UNCHANGED loc
       ELSE /\ pc' = "for_test"
            /\ loc' = [loc EXCEPT !.driverTypeIndex = @ + 1]
    /\ UNCHANGED <<self, result, refs, destroyed, pipeline, calls, acquired,
                   released, faults, cleanupCalls>>

----------------------------------------------------------------------------
\* Calls that hand out an interface pointer through an out-parameter

\* hr = via->fn(arg, &h) for a local handle h; on success h refers to o.
AcquireLocal(fn, via, arg, h, o, nextOk, nextFail) ==
    IF Dangling(Value(via)) THEN UndefinedCall(fn, via, nextOk)
    ELSE \E hr \in HRESULTS :
        /\ calls' = Append(calls, Call(fn, via, arg, hr))
        /\ IF SUCCEEDED(hr)
           THEN /\ loc' = [loc EXCEPT !.hr = hr, ![h] = o]
                /\ refs' = Stored(refs, o)
                /\ acquired' = Counted(acquired, h)
                /\ pc' = nextOk
           ELSE /\ loc' = [loc EXCEPT !.hr = hr, ![h] = NULL]
                /\ pc' = nextFail
                /\ UNCHANGED <<refs, acquired>>
        /\ UNCHANGED <<self, result, destroyed, pipeline, released, faults,
                       cleanupCalls>>

\* via->fn(arg, &h) for a member handle h; on success h refers to o.  The
\* HRESULT is assigned to hr unless the call's value is discarded.
AcquireMember(fn, via, arg, h, o, assignsHr, nextOk, nextFail) ==
    IF Dangling(Value(via)) THEN UndefinedCall(fn, via, nextOk)
    ELSE \E hr \in HRESULTS :
        /\ calls' = Append(calls, Call(fn, via, arg, hr))
        /\ loc' = IF assignsHr THEN [loc EXCEPT !.hr = hr] ELSE loc
        /\ IF SUCCEEDED(hr)
           THEN /\ self' = [self EXCEPT ![h] = o]
                /\ refs' = Stored(refs, o)
                /\ acquired' = Counted(acquired, h)
                /\ pc' = nextOk
           ELSE /\ self' = [self EXCEPT ![h] = NULL]
                /\ pc' = nextFail
                /\ UNCHANGED <<refs, acquired>>
        /\ UNCHANGED <<result, destroyed, pipeline, released, faults,
                       cleanupCalls>>

\* if (FAILED(hr)) return hr;
ReturnIfFailed(next) ==
    /\ IF FAILED(loc.hr)
       THEN Return(loc.hr)
       ELSE /\ pc' = next
            /\ UNCHANGED result
    /\ UNCHANGED <<self, loc, refs, destroyed, pipeline, calls, acquired,
                   released, faults, cleanupCalls>>

CheckDevice ==
    /\ pc = "check_device"
    /\ ReturnIfFailed("query_dxgi_device")

----------------------------------------------------------------------------
\* Renderer::InitDevice, lines 122-146: device -> DXGI device -> adapter -> factory

QueryDXGIDevice ==
    /\ pc = "query_dxgi_device"
    /\ AcquireLocal("QueryInterface(IDXGIDevice)", "m_pDevice", <<>>,
                    "dxgiDevice", "Device", "get_adapter", "check_factory")

GetAdapter ==
    /\ pc = "get_adapter"
    /\ AcquireLocal("GetAdapter", "dxgiDevice", <<>>,
                    "adapter", "Adapter", "get_parent", "release_dxgi_device")

GetParent ==
    /\ pc = "get_parent"
    /\ AcquireLocal("GetParent(IDXGIFactory1)", "adapter", <<>>,
                    "dxgiFactory", "Factory", "release_adapter", "release_adapter")

ReleaseAdapter ==
    /\ pc = "release_adapter"
    /\ Release("adapter", "release_dxgi_device")

ReleaseDXGIDevice ==
    /\ pc = "release_dxgi_device"
    /\ Release("dxgiDevice", "check_factory")

CheckFactory ==
    /\ pc = "check_factory"
    /\ ReturnIfFailed("query_factory2")


----------------------------------------------------------------------------
\* Renderer::InitDevice, lines 148-207: swap-chain creation

QueryFactory2 ==
    /\ pc = "query_factory2"
    /\ AcquireLocal("QueryInterface(IDXGIFactory2)", "dxgiFactory", <<>>,
                    "dxgiFactory2", "Factory", "factory2_test", "factory2_test")

\* Faulty variant: the legacy path is taken even when IDXGIFactory2 was acquired.
HasFactory2_never == FALSE

\* if (dxgiFactory2)
HasFactory2 == loc.dxgiFactory2 # NULL

Factory2Test ==
    /\ pc = "factory2_test"
    /\ pc' = IF HasFactory2 THEN "query_device1" ELSE "create_swap_chain"
    /\ UNCHANGED <<self, loc, result, refs, destroyed, pipeline, calls,
                   acquired, released, faults, cleanupCalls>>

\* Faulty variant: a failed ID3D11Device1 query skips the swap-chain creation
\* and its code reaches the failure check.
QueryDevice1_fatal ==
    /\ pc = "query_device1"
    /\ AcquireMember("QueryInterface(ID3D11Device1)", "m_pDevice", <<>>,
                     "m_pDevice1", "Device", TRUE,
                     "query_context1", "release_factory2")

QueryDevice1 ==
    /\ pc = "query_device1"
    /\ AcquireMember("QueryInterface(ID3D11Device1)", "m_pDevice", <<>>,
                     "m_pDevice1", "Device", TRUE,
                     "query_context1", "create_swap_chain_for_hwnd")

QueryContext1 ==
    /\ pc = "query_context1"
    /\ AcquireMember("QueryInterface(ID3D11DeviceContext1)",
                     "m_pImmediateContext", <<>>,
                     "m_pImmediateContext1", "Context", FALSE,
                     "create_swap_chain_for_hwnd", "create_swap_chain_for_hwnd")

\* DXGI_SWAP_CHAIN_DESC1 sd = {}; ...
SwapChainDesc1 ==
    [Width |-> loc.width, Height |-> loc.height, Format |-> "R8G8B8A8_UNORM",
     SampleCount |-> 1, SampleQuality |-> 0,
     BufferUsage |-> "RENDER_TARGET_OUTPUT", BufferCount |-> 1]

CreateSwapChainForHwnd ==
    /\ pc = "create_swap_chain_for_hwnd"
    /\ AcquireMember("CreateSwapChainForHwnd", "dxgiFactory2",
                     <<self.m_pDevice, self.m_hWnd, SwapChainDesc1>>,
                     "m_pSwapChain1", "SwapChain", TRUE,
                     "query_swap_chain", "release_factory2")

QuerySwapChain ==
    /\ pc = "query_swap_chain"
    /\ AcquireMember("QueryInterface(IDXGISwapChain)", "m_pSwapChain1", <<>>,
                     "m_pSwapChain", "SwapChain", TRUE,
                     "release_factory2", "release_factory2")

ReleaseFactory2 ==
    /\ pc = "release_factory2"
    /\ Release("dxgiFactory2", "make_window_association")

\* DXGI_SWAP_CHAIN_DESC sd = {}; ...
SwapChainDesc ==
    [BufferCount |-> 1, Width |-> loc.width, Height |-> loc.height,
     Format |-> "R8G8B8A8_UNORM", RefreshNumerator |-> 60,
     RefreshDenominator |-> 1, BufferUsage |-> "RENDER_TARGET_OUTPUT",
     OutputWindow |-> self.m_hWnd, SampleCount |-> 1, SampleQuality |-> 0,
     Windowed |-> TRUE]

CreateSwapChain ==
    /\ pc = "create_swap_chain"
    /\ AcquireMember("CreateSwapChain", "dxgiFactory",
                     <<self.m_pDevice, SwapChainDesc>>,
                     "m_pSwapChain", "SwapChain", TRUE,
                     "make_window_association", "make_window_association")

\* dxgiFactory->MakeWindowAssociation(m_hWnd, DXGI_MWA_NO_ALT_ENTER); the
\* HRESULT it returns is discarded.
MakeWindowAssociation ==
    /\ pc = "make_window_association"
    /\ IF Dangling(loc.dxgiFactory)
       THEN UndefinedCall("MakeWindowAssociation", "dxgiFactory", "release_factory")
       ELSE /\ calls' = Append(calls, Call("MakeWindowAssociation", "dxgiFactory",
                                           <<self.m_hWnd, "NO_ALT_ENTER">>, "discarded"))
            /\ pc' = "release_factory"
            /\ UNCHANGED <<self, loc, result, refs, destroyed, pipeline,
                           acquired, released, faults, cleanupCalls>>

ReleaseFactory ==
    /\ pc = "release_factory"
    /\ Release("dxgiFactory", "check_swap_chain")

CheckSwapChain ==
    /\ pc = "check_swap_chain"
    /\ ReturnIfFailed("get_buffer")

----------------------------------------------------------------------------
\* Renderer::InitDevice, lines 209-239: render target view and viewport

GetBuffer ==
    /\ pc = "get_buffer"
    /\ AcquireLocal("GetBuffer", "m_pSwapChain", <<0>>,
                    "pBackBuffer", "BackBuffer", "check_buffer", "check_buffer")

\* Faulty variant: the result of GetBuffer is not checked.
CheckBuffer_skipped ==
    /\ pc = "check_buffer"
    /\ Skip("create_rtv")

CheckBuffer ==
    /\ pc = "check_buffer"
    /\ ReturnIfFailed("create_rtv")

CreateRenderTargetView ==
    /\ pc = "create_rtv"
    /\ AcquireMember("CreateRenderTargetView", "m_pDevice", <<loc.pBackBuffer>>,
                     "m_pRenderTargetView", "RenderTargetView", TRUE,
                     "release_back_buffer", "release_back_buffer")

\* Faulty variant: the back buffer is released only when the view was created.
ReleaseBackBuffer_afterCheck ==
    /\ pc = "release_back_buffer"
    /\ IF FAILED(loc.hr) THEN Skip("check_rtv")
       ELSE Release("pBackBuffer", "check_rtv")

ReleaseBackBuffer ==
    /\ pc = "release_back_buffer"
    /\ Release("pBackBuffer", "check_rtv")

\* Faulty variant: the result of CreateRenderTargetView is not checked.
CheckRTV_skipped ==
    /\ pc = "check_rtv"
    /\ Skip("set_render_targets")

CheckRTV ==
    /\ pc = "check_rtv"
    /\ ReturnIfFailed("set_render_targets")

OMSetRenderTargets ==
    /\ pc = "set_render_targets"
    /\ IF Dangling(self.m_pImmediateContext)
       THEN UndefinedCall("OMSetRenderTargets", "m_pImmediateContext", "set_viewports")
       ELSE /\ pipeline' = [pipeline EXCEPT !.renderTarget = self.m_pRenderTargetView]
            /\ calls' = Append(calls, Call("OMSetRenderTargets", "m_pImmediateContext",
                                           <<self.m_pRenderTargetView>>, "void"))
            /\ pc' = "set_viewports"
            /\ UNCHANGED <<self, loc, result, refs, destroyed, acquired,
                           released, faults, cleanupCalls>>

\* D3D11_VIEWPORT vp; ...
Viewport ==
    [Width |-> loc.width, Height |-> loc.height, MinDepth |-> 0, MaxDepth |-> 1,
     TopLeftX |-> 0, TopLeftY |-> 0]

RSSetViewports ==
    /\ pc = "set_viewports"
    /\ IF Dangling(self.m_pImmediateContext)
       THEN UndefinedCall("RSSetViewports", "m_pImmediateContext", "return_ok")
       ELSE /\ pipeline' = [pipeline EXCEPT !.viewport = <<Viewport>>]
            /\ calls' = Append(calls, Call("RSSetViewports", "m_pImmediateContext",
                                           <<Viewport>>, "void"))
            /\ pc' = "return_ok"
            /\ UNCHANGED <<self, loc, result, refs, destroyed, acquired,
                           released, faults, cleanupCalls>>

\* return S_OK;
ReturnOk ==
    /\ pc = "return_ok"
    /\ Return("S_OK")
    /\ UNCHANGED <<self, loc, refs, destroyed, pipeline, calls, acquired,
                   released, faults, cleanupCalls>>


----------------------------------------------------------------------------
\* Renderer::CleanupDevice, lines 248-289

\* Faulty variant: the render target view is released after the swap chain.
CleanupOrder_viewAfterSwapChain ==
    <<"clear_state", "release_swap_chain", "release_swap_chain1",
      "release_rtv", "release_context", "release_context1", "release_device",
      "release_device1", "cleaned">>

\* The statements of CleanupDevice in the order they are written, then the
\* position after the method returned.
CleanupOrder ==
    <<"clear_state", "release_rtv", "release_swap_chain", "release_swap_chain1",
      "release_context", "release_context1", "release_device",
      "release_device1", "cleaned">>

\* The statement that follows statement `label`.
After(label) ==
    CleanupOrder[(CHOOSE i \in 1..Len(CleanupOrder) : CleanupOrder[i] = label) + 1]

\* The caller invokes CleanupDevice once InitDevice has returned, and may
\* invoke it again after it returned.
CallCleanupDevice ==
    /\ pc \in {"returned", "cleaned"}
    /\ cleanupCalls < MaxCleanupCalls
    /\ cleanupCalls' = cleanupCalls + 1
    /\ pc' = CleanupOrder[1]
    /\ calls' = Append(calls, Call("CleanupDevice", "", <<>>, "void"))
    /\ UNCHANGED <<self, loc, result, refs, destroyed, pipeline, acquired,
                   released, faults>>

\* if (m_pImmediateContext) m_pImmediateContext->ClearState();
ClearState ==
    /\ pc = "clear_state"
    /\ IF self.m_pImmediateContext = NULL THEN Skip(After("clear_state"))
       ELSE IF Dangling(self.m_pImmediateContext)
       THEN UndefinedCall("ClearState", "m_pImmediateContext", After("clear_state"))
       ELSE /\ pipeline' = [renderTarget |-> NULL, viewport |-> <<>>]
            /\ destroyed' = destroyed \cup {o \in Bound(pipeline) : refs[o] = 0}
            /\ calls' = Append(calls, Call("ClearState", "m_pImmediateContext",
                                           <<>>, "void"))
            /\ pc' = After("clear_state")
            /\ UNCHANGED <<self, loc, result, refs, acquired, released, faults,
                           cleanupCalls>>

\* Faulty variant: the release is not guarded by a null test.
ReleaseIfSet_unguarded(h, next) == Release(h, next)

\* if (h) h->Release();
ReleaseIfSet(h, next) ==
    IF self[h] = NULL THEN Skip(next) ELSE Release(h, next)

ReleaseRenderTargetView ==
    /\ pc = "release_rtv"
    /\ ReleaseIfSet("m_pRenderTargetView", After("release_rtv"))

ReleaseSwapChain ==
    /\ pc = "release_swap_chain"
    /\ ReleaseIfSet("m_pSwapChain", After("release_swap_chain"))

ReleaseSwapChain1 ==
    /\ pc = "release_swap_chain1"
    /\ ReleaseIfSet("m_pSwapChain1", After("release_swap_chain1"))

ReleaseImmediateContext ==
    /\ pc = "release_context"
    /\ ReleaseIfSet("m_pImmediateContext", After("release_context"))

ReleaseImmediateContext1 ==
    /\ pc = "release_context1"
    /\ ReleaseIfSet("m_pImmediateContext1", After("release_context1"))

ReleaseDevice ==
    /\ pc = "release_device"
    /\ ReleaseIfSet("m_pDevice", After("release_device"))

ReleaseDevice1 ==
    /\ pc = "release_device1"
    /\ ReleaseIfSet("m_pDevice1", After("release_device1"))

----------------------------------------------------------------------------
Next ==
    \/ InitDevice_Enter
    \/ ForTest
    \/ CreateDevice
    \/ RetryWithoutTopLevel
    \/ BreakTest
    \/ CheckDevice
    \/ QueryDXGIDevice
    \/ GetAdapter
    \/ GetParent
    \/ ReleaseAdapter
    \/ ReleaseDXGIDevice
    \/ CheckFactory
    \/ QueryFactory2
    \/ Factory2Test
    \/ QueryDevice1
    \/ QueryContext1
    \/ CreateSwapChainForHwnd
    \/ QuerySwapChain
    \/ ReleaseFactory2
    \/ CreateSwapChain
    \/ MakeWindowAssociation
    \/ ReleaseFactory
    \/ CheckSwapChain
    \/ GetBuffer
    \/ CheckBuffer
    \/ CreateRenderTargetView
    \/ ReleaseBackBuffer
    \/ CheckRTV
    \/ OMSetRenderTargets
    \/ RSSetViewports
    \/ ReturnOk
    \/ CallCleanupDevice
    \/ ClearState
    \/ ReleaseRenderTargetView
    \/ ReleaseSwapChain
    \/ ReleaseSwapChain1
    \/ ReleaseImmediateContext
    \/ ReleaseImmediateContext1
    \/ ReleaseDevice
    \/ ReleaseDevice1

Spec == Init /\ [][Next]_vars


----------------------------------------------------------------------------
\* Vocabulary of the properties: views of the call log

\* Until the caller invokes CleanupDevice the log holds exactly the platform
\* calls InitDevice made; CleanupDevice only appends to it and changes no
\* member field, so what holds of InitDevice's calls is settled in these states.
InitCalls == calls

BeforeCleanup == cleanupCalls = 0

IsDeviceCall(c) == c.fn = "D3D11CreateDevice"

\* The device-creation attempts, in order.
DeviceCalls == SelectSeq(calls, IsDeviceCall)

ExpectedDrivers == <<"HARDWARE", "WARP", "REFERENCE">>

DriverRank(d) == CHOOSE i \in 1..Len(ExpectedDrivers) : ExpectedDrivers[i] = d

FullLevels == <<"11_1", "11_0", "10_1", "10_0">>

ReducedLevels == <<"11_0", "10_1", "10_0">>

\* InitDevice has returned and the caller has not yet invoked CleanupDevice.
JustReturned == pc = "returned" /\ cleanupCalls = 0

----------------------------------------------------------------------------
\* C1: the driver types for which device creation is attempted form a prefix
\* of hardware, WARP, reference; nothing is attempted after a success, the
\* driver type of the successful attempt is the one recorded in m_driverType,
\* and InitDevice returns from the device-creation check only with a failure
\* code, after all three driver types were attempted and every attempt failed.
C1_DriverFallbackOrder ==
    BeforeCleanup =>
    LET A == DeviceCalls
        n == Len(A)
        Drv(i) == A[i].arg[1]
    IN  /\ n > 0 => Drv(1) = "HARDWARE"
        /\ \A i \in 1..(n - 1) :
              /\ A[i].hr # "S_OK"
              /\ DriverRank(Drv(i + 1)) \in {DriverRank(Drv(i)), DriverRank(Drv(i)) + 1}
        /\ (n > 0 /\ A[n].hr = "S_OK") => self.m_driverType = Drv(n)
        /\ (result # "none" /\ Len(InitCalls) = n) =>
              /\ result # "S_OK"
              /\ {Drv(i) : i \in 1..n} = {"HARDWARE", "WARP", "REFERENCE"}
              /\ \A i \in 1..n : A[i].hr # "S_OK"
              /\ result = A[n].hr

\* InitDevice succeeded on the last driver type after the first two failed.
C1_Witness ==
    /\ JustReturned
    /\ result = "S_OK"
    /\ self.m_driverType = "REFERENCE"
    /\ \E i \in 1..Len(DeviceCalls) : DeviceCalls[i].arg[1] = "WARP"

----------------------------------------------------------------------------
\* C2: a first attempt (full feature-level list) that fails with E_INVALIDARG
\* is followed by exactly one retry for the same driver type with the list
\* minus its top level, before any other driver type is attempted; a retry
\* that succeeds selects that driver type and initialization goes on to the
\* DXGI queries; a first attempt failing with another code is not retried.
C2_RetryWithoutTopLevel ==
    BeforeCleanup =>
    LET A == DeviceCalls
        n == Len(A)
        Drv(i) == A[i].arg[1]
        First(i) == A[i].arg[2] = FullLevels
        Retry(i) == A[i].arg[2] = ReducedLevels
    IN  /\ n > 0 => First(1)
        /\ \A i \in 1..n :
              /\ First(i) \/ Retry(i)
              /\ (First(i) /\ A[i].hr = "E_INVALIDARG") =>
                    IF i < n THEN Retry(i + 1) /\ Drv(i + 1) = Drv(i)
                    ELSE pc = "retry_test"
              /\ (First(i) /\ A[i].hr # "E_INVALIDARG" /\ i < n) =>
                    First(i + 1) /\ Drv(i + 1) # Drv(i)
              /\ Retry(i) =>
                    /\ i > 1 /\ First(i - 1) /\ A[i - 1].hr = "E_INVALIDARG"
                    /\ Drv(i - 1) = Drv(i)
                    /\ i < n => (First(i + 1) /\ Drv(i + 1) # Drv(i))
              /\ (Retry(i) /\ A[i].hr = "S_OK") =>
                    /\ i = n
                    /\ self.m_driverType = Drv(i)
                    /\ self.m_pDevice # NULL
                    /\ result # "none" => Len(InitCalls) > n

\* InitDevice succeeded with a device obtained by a retry on the WARP driver.
C2_Witness ==
    /\ JustReturned
    /\ result = "S_OK"
    /\ self.m_driverType = "WARP"
    /\ DeviceCalls[Len(DeviceCalls)].arg[2] = ReducedLevels
    /\ DeviceCalls[Len(DeviceCalls)].hr = "S_OK"


----------------------------------------------------------------------------
\* C3: calling CleanupDevice twice in a row releases no reference more often
\* than it was acquired and makes no call through a handle whose object the
\* program no longer holds.
C3_CleanupIdempotent ==
    /\ \A h \in MemberHandles : released[h] <= acquired[h]
    /\ faults = {}

----------------------------------------------------------------------------
\* C4: up to and including the first CleanupDevice after InitDevice returned
\* (with any outcome) no call goes through a null or dangling handle and no
\* member handle is released more often than it was set; when that
\* CleanupDevice has returned, every reference InitDevice stored in a member
\* handle has been released exactly once and the program holds no reference
\* to any object.
C4_SingleCleanupSafe ==
    cleanupCalls <= 1 =>
        /\ faults = {}
        /\ pc # "crashed"
        /\ \A h \in MemberHandles :
              /\ acquired[h] = IF self[h] = NULL THEN 0 ELSE 1
              /\ released[h] <= acquired[h]
        /\ pc = "cleaned" =>
              /\ \A h \in MemberHandles : released[h] = acquired[h]
              /\ \A o \in Objects : refs[o] = 0
              /\ \A h \in MemberHandles : self[h] # NULL => self[h] \in destroyed

\* One CleanupDevice has run after InitDevice failed at the adaptation of the
\* per-window swap chain: m_pSwapChain1 was set, m_pSwapChain was not.
C4_Witness ==
    /\ pc = "cleaned"
    /\ cleanupCalls = 1
    /\ result # "S_OK"
    /\ self.m_pSwapChain1 # NULL
    /\ self.m_pSwapChain = NULL
    /\ released["m_pSwapChain1"] = 1

----------------------------------------------------------------------------
\* C5: when InitDevice has returned S_OK, the device, the immediate context,
\* the swap chain (legacy interface) and the render target view are all
\* non-null and refer to objects the program holds.
C5_SuccessAllNonNull ==
    (JustReturned /\ result = "S_OK") =>
        \A h \in {"m_pDevice", "m_pImmediateContext", "m_pSwapChain",
                  "m_pRenderTargetView"} :
            self[h] # NULL /\ refs[self[h]] > 0

\* InitDevice succeeded on the legacy path with a device obtained by a retry.
C5_Witness ==
    /\ JustReturned
    /\ result = "S_OK"
    /\ self.m_pSwapChain1 = NULL
    /\ self.m_pSwapChain # NULL
    /\ DeviceCalls[Len(DeviceCalls)].arg[2] = ReducedLevels

----------------------------------------------------------------------------
\* The steps whose failure ends InitDevice

FatalSteps == {"QueryInterface(IDXGIDevice)", "GetAdapter",
               "GetParent(IDXGIFactory1)", "CreateSwapChainForHwnd",
               "QueryInterface(IDXGISwapChain)", "CreateSwapChain",
               "GetBuffer", "CreateRenderTargetView"}

SwapChainSteps == {"CreateSwapChainForHwnd", "QueryInterface(IDXGISwapChain)",
                   "CreateSwapChain"}

\* Call i of InitDevice is a failed fatal step: a failed step of FatalSteps,
\* or the failed last attempt on the last driver type.
FatalFailure(i) ==
    LET c == calls[i]
    IN  \/ c.fn \in FatalSteps /\ c.hr # "S_OK"
        \/ /\ c.fn = "D3D11CreateDevice"
           /\ c.hr # "S_OK"
           /\ c.arg[1] = "REFERENCE"
           /\ ~(c.arg[2] = FullLevels /\ c.hr = "E_INVALIDARG")

\* C6 as stated: after a failed fatal step InitDevice makes no further call
\* except releases of transient handles, and returns that step's code.
C6_ShortCircuit ==
    BeforeCleanup =>
    \A i \in 1..Len(InitCalls) :
        FatalFailure(i) =>
            /\ \A j \in (i + 1)..Len(InitCalls) : InitCalls[j].fn = "Release"
            /\ result # "none" => result = InitCalls[i].hr

\* C6 amended: after a failed fatal step InitDevice returns that step's code
\* and makes no further call except releases of transient handles and, when
\* the failed step is swap-chain creation or the adaptation to the legacy
\* interface, the Alt+Enter window association, which is then always made
\* before the return.
C6_ShortCircuitButWindowAssociation ==
    BeforeCleanup =>
    \A i \in 1..Len(InitCalls) :
        FatalFailure(i) =>
            /\ \A j \in (i + 1)..Len(InitCalls) :
                  \/ InitCalls[j].fn = "Release"
                  \/ /\ InitCalls[j].fn = "MakeWindowAssociation"
                     /\ InitCalls[i].fn \in SwapChainSteps
            /\ result # "none" =>
                  /\ result = InitCalls[i].hr
                  /\ InitCalls[i].fn \in SwapChainSteps =>
                        \E j \in (i + 1)..Len(InitCalls) :
                            InitCalls[j].fn = "MakeWindowAssociation"

\* InitDevice returned the failure of the legacy swap-chain creation.
C6_Witness ==
    /\ JustReturned
    /\ result = "E_FAIL"
    /\ \E i \in 1..Len(InitCalls) :
          InitCalls[i].fn = "CreateSwapChain" /\ InitCalls[i].hr = "E_FAIL"


----------------------------------------------------------------------------
\* Number of calls of fn InitDevice made.
Count(fn) == Len(SelectSeq(InitCalls, LAMBDA c : c.fn = fn))

\* C7: on the Factory2 path a query for the extended device or context
\* interface, whatever its outcome, is followed by the swap-chain creation
\* (the context query comes between when the device query succeeded) and
\* never by a return; a failed query leaves its extended handle null; and
\* InitDevice returns S_OK exactly when no fatal step failed, whatever the
\* upgrade queries returned.
C7_UpgradeBestEffort ==
    BeforeCleanup =>
    LET n == Len(InitCalls)
    IN  /\ \A i \in 1..n :
              /\ InitCalls[i].fn = "QueryInterface(ID3D11Device1)" =>
                    /\ i < n => InitCalls[i + 1].fn =
                                  IF InitCalls[i].hr = "S_OK"
                                  THEN "QueryInterface(ID3D11DeviceContext1)"
                                  ELSE "CreateSwapChainForHwnd"
                    /\ i = n => result = "none"
                    /\ InitCalls[i].hr # "S_OK" =>
                          /\ self.m_pDevice1 = NULL
                          /\ self.m_pImmediateContext1 = NULL
              /\ InitCalls[i].fn = "QueryInterface(ID3D11DeviceContext1)" =>
                    /\ i < n => InitCalls[i + 1].fn = "CreateSwapChainForHwnd"
                    /\ i = n => result = "none"
                    /\ InitCalls[i].hr # "S_OK" => self.m_pImmediateContext1 = NULL
        /\ result # "none" =>
              (result = "S_OK" <=> ~ \E i \in 1..n : FatalFailure(i))

\* InitDevice succeeded although the query for the extended device failed.
C7_Witness ==
    /\ JustReturned
    /\ result = "S_OK"
    /\ self.m_pDevice1 = NULL
    /\ \E i \in 1..Len(InitCalls) :
          /\ InitCalls[i].fn = "QueryInterface(ID3D11Device1)"
          /\ InitCalls[i].hr # "S_OK"

----------------------------------------------------------------------------
\* C8: InitDevice makes at most one swap-chain creation call, and exactly one
\* once it has passed the creation: CreateSwapChainForHwnd if and only if the
\* query for IDXGIFactory2 succeeded (followed, when it succeeds, by the
\* adaptation to IDXGISwapChain), otherwise CreateSwapChain with buffer count
\* 1, refresh rate 60/1, windowed, output window m_hWnd; a failed
\* CreateSwapChainForHwnd is never followed by CreateSwapChain.
C8_ExactlyOneCreationPath ==
    BeforeCleanup =>
    LET n == Len(InitCalls)
        nHwnd == Count("CreateSwapChainForHwnd")
        nLegacy == Count("CreateSwapChain")
        Factory2(ok) == \E i \in 1..n :
                            /\ InitCalls[i].fn = "QueryInterface(IDXGIFactory2)"
                            /\ (InitCalls[i].hr = "S_OK") = ok
    IN  /\ nHwnd + nLegacy <= 1
        /\ nHwnd = 1 => Factory2(TRUE)
        /\ nLegacy = 1 => Factory2(FALSE)
        /\ Count("MakeWindowAssociation") > 0 => nHwnd + nLegacy = 1
        /\ \A i \in 1..n :
              /\ InitCalls[i].fn = "CreateSwapChain" =>
                    /\ InitCalls[i].via = "dxgiFactory"
                    /\ InitCalls[i].arg[2].BufferCount = 1
                    /\ InitCalls[i].arg[2].RefreshNumerator = 60
                    /\ InitCalls[i].arg[2].RefreshDenominator = 1
                    /\ InitCalls[i].arg[2].Windowed = TRUE
                    /\ InitCalls[i].arg[2].OutputWindow = self.m_hWnd
              /\ (InitCalls[i].fn = "CreateSwapChainForHwnd" /\ i < n) =>
                    IF InitCalls[i].hr = "S_OK"
                    THEN InitCalls[i + 1].fn = "QueryInterface(IDXGISwapChain)"
                    ELSE InitCalls[i + 1].fn = "Release"

\* InitDevice returned the failure of the per-window swap-chain creation.
C8_Witness ==
    /\ JustReturned
    /\ result = "E_INVALIDARG"
    /\ \E i \in 1..Len(InitCalls) :
          /\ InitCalls[i].fn = "CreateSwapChainForHwnd"
          /\ InitCalls[i].hr = "E_INVALIDARG"

----------------------------------------------------------------------------
\* Position of a CleanupDevice call in the dependency order.
Rank(c) ==
    IF c.fn = "ClearState" THEN 0
    ELSE IF c.via = "m_pRenderTargetView" THEN 1
    ELSE IF c.via \in {"m_pSwapChain", "m_pSwapChain1"} THEN 2
    ELSE IF c.via \in {"m_pImmediateContext", "m_pImmediateContext1"} THEN 3
    ELSE 4

\* A call CleanupDevice makes: ClearState, or a release of a member handle.
CleanupCall(c) ==
    \/ c.fn = "ClearState"
    \/ c.fn = "Release" /\ c.via \in MemberHandles

\* C9: within one CleanupDevice the pipeline state is cleared before any
\* release and the releases follow the order render target view, swap-chain
\* handles, context handles, device handles; during the first CleanupDevice
\* after a successful InitDevice the swap chain is not destroyed while the
\* render target view is alive, nor the device while the swap chain is alive.
C9_DependencyOrder ==
    /\ \A i \in 1..(Len(calls) - 1) :
          /\ calls[i].fn = "CleanupDevice" =>
                calls[i + 1].fn \in {"ClearState", "CleanupDevice"}
          /\ CleanupCall(calls[i + 1]) =>
                \/ calls[i].fn = "CleanupDevice" /\ calls[i + 1].fn = "ClearState"
                \/ /\ CleanupCall(calls[i])
                   /\ calls[i + 1].fn # "ClearState"
                   /\ Rank(calls[i]) <= Rank(calls[i + 1])
    /\ (result = "S_OK" /\ cleanupCalls <= 1) =>
          /\ "SwapChain" \in destroyed => "RenderTargetView" \in destroyed
          /\ "Device" \in destroyed => "SwapChain" \in destroyed

\* The first CleanupDevice after a successful InitDevice has destroyed the device.
C9_Witness ==
    /\ pc = "cleaned"
    /\ cleanupCalls = 1
    /\ result = "S_OK"
    /\ {"RenderTargetView", "SwapChain", "Context", "Device"} \subseteq destroyed

----------------------------------------------------------------------------
\* C10: InitDevice makes no call through a null or dangling handle and never
\* releases a transient handle it did not acquire; when it has returned, by
\* any path, each transient handle it acquired has been released exactly
\* once, and the references the program holds are exactly those stored in
\* the member handles.
C10_TransientsReleased ==
    /\ cleanupCalls = 0 => faults = {}
    /\ \A h \in TransientHandles : released[h] <= acquired[h] /\ acquired[h] <= 1
    /\ result # "none" => \A h \in TransientHandles : released[h] = acquired[h]
    /\ JustReturned =>
          \A o \in Objects :
              refs[o] = Cardinality({h \in MemberHandles : self[h] = o})

\* InitDevice failed at the render-target-view creation on the Factory2 path,
\* having acquired all five transient handles.
C10_Witness ==
    /\ JustReturned
    /\ result # "S_OK"
    /\ \A h \in TransientHandles : acquired[h] = 1

====
